---- MODULE Spec2Model ----
(***************************************************************************)
(* useMediaQuery: a media-query external store for React.                  *)
(*                                                                         *)
(* The repository holds two implementations of the exported hook:          *)
(*   "store"  : src/src/index.tsx, one cached store per query string,      *)
(*              listening to the MediaQueryList 'change' event only;       *)
(*   "direct" : src/unnamed/part_001, no cache, a fresh MediaQueryList and *)
(*              AbortController per subscribe call, listening to 'change', *)
(*              'orientationchange' and 'resize'.                          *)
(* A program is built from one of them (variable variant).                 *)
(*                                                                         *)
(* The environment is the browser: the window (absent on a server), the    *)
(* match state of every query, the listener lists of the MediaQueryList    *)
(* objects and of the window.  A listener list holds one entry per         *)
(* callback: the DOM ignores addEventListener for a (type, callback) pair  *)
(* that is already registered.                                             *)
(*                                                                         *)
(* Three behaviours are specified:                                         *)
(*   Spec        : the store contract called by any caller;                *)
(*   SpecReact   : the hook called by components through React's           *)
(*                 useSyncExternalStore (render, subscribe effect,         *)
(*                 re-render, cleanup);                                    *)
(*   SpecHydrate : a render without a window followed by hydration in a    *)
(*                 browser.                                                *)
(***************************************************************************)
EXTENDS Naturals, Sequences, FiniteSets, TLC

Queries == {"q1", "q2"}
Callbacks == {"cb1", "cb2"}
Variants == {"store", "direct"}
Modes == {"client", "server"}
WindowEvents == {"orientationchange", "resize"}

\* Number of subscribe calls explored.
MaxSubs == 2

\* The components that call the hook, and the query strings they pass.
Consumers == {"c1", "c2"}
Rendered == {"q1"}

VARIABLES
    variant,      \* which implementation the program is built from
    win,          \* typeof window !== 'undefined'
    matches,      \* the environment's match state of each query
    stores,       \* the store objects constructed so far, in order (identity = index)
    storeCache,   \* index.tsx storeCache: query -> store index, 0 = no entry
    mqListeners,  \* 'change' listener list of each store's mediaQuery object
    winListeners, \* listener lists of the window, per event type
    subs,         \* the subscribe calls made so far (handle = index)
    fired,        \* the callback invocations performed by this step, in order
    event,        \* the environment event of this step
    ret,          \* the operation performed by this step and what it returned
    notified,     \* queries for which a change notification has fired
    cons,         \* the binding's hook state of each consumer
    ssr           \* what the server render of each query yielded

vars == <<variant, win, matches, stores, storeCache, mqListeners, winListeners,
          subs, fired, event, ret, notified, cons, ssr>>

NoEvent == [type |-> "none", changed |-> {}]
NoRet == [op |-> "none", q |-> "none", h |-> 0, store |-> 0, val |-> "none"]
NoMatch == [q \in Queries |-> FALSE]

\* No server render of a query has been made.
NoMarkup == [server |-> "none", client |-> "none"]

\* A consumer that is not rendered: no query, no value, no subscription.
Unmounted == [pc |-> "idle", q |-> "none", held |-> "none", h |-> 0, fn |-> 0,
              fresh |-> FALSE, missed |-> FALSE]

\* A boolean result as it is recorded in ret.val, beside "throw" and "none".
Show(b) == IF b THEN "true" ELSE "false"

----------------------------------------------------------------------------
(* EventTarget listener lists *)

Registered(list, cb) == \E i \in 1..Len(list) : list[i].cb = cb

\* A subscribe that registers nothing.
addEventListenerNoop(list, cb, h) == list

\* addEventListener(type, callback): appended unless the callback is registered.
addEventListener(list, cb, h) ==
    IF Registered(list, cb) THEN list ELSE Append(list, [cb |-> cb, sub |-> h])

\* A cleanup that forgets to deregister.
removeEventListenerNoop(list, cb) == list

\* removeEventListener(type, callback): removes the entry of that callback.
removeEventListener(list, cb) == SelectSeq(list, LAMBDA e : e.cb # cb)

\* controller.abort(): removes the entries that were added with its signal.
abort(list, h) == SelectSeq(list, LAMBDA e : e.sub # h)

----------------------------------------------------------------------------
(* src/src/index.tsx *)

\* The window check always taking the fallback branch.
createMediaQueryStoreSsrOnly(query) ==
    [kind |-> "fallback", query |-> query, hadWindow |-> win]

\* The window check missing.
createMediaQueryStoreNoCheck(query) ==
    [kind |-> "live", query |-> query, hadWindow |-> win]

\* createMediaQueryStore(query): the SSR fallback or a store over a MediaQueryList.
\* hadWindow records whether a window existed at construction.
createMediaQueryStore(query) ==
    IF ~win
    THEN [kind |-> "fallback", query |-> query, hadWindow |-> win]
    ELSE [kind |-> "live", query |-> query, hadWindow |-> win]

\* A snapshot that does not read the MediaQueryList.
getSnapshotFallbackOnly(st) == FALSE

\* store.getSnapshot(): () => false, or () => mediaQuery.matches (live).
getSnapshot(st) ==
    IF st.kind = "fallback" THEN FALSE ELSE matches[st.query]

\* A lookup that never finds the cached store.
storeCacheHasNever(query) == FALSE

\* storeCache.has(query)
storeCacheHas(query) == storeCache[query] # 0

\* useSyncExternalStore(subscribe, getSnapshot, getServerSnapshot?) of React: a
\* server render needs getServerSnapshot and throws without it; a client render
\* returns getSnapshot().
useSyncExternalStore(mode, snapshot, hasServerSnapshot, serverSnapshot) ==
    IF mode \in {"server", "hydrate"}
    THEN IF hasServerSnapshot THEN serverSnapshot ELSE "throw"
    ELSE snapshot

\* A change that reaches no listener of the stores.
StoreChangeNone(i, changed) == <<>>

\* The change notifications of the stores' mediaQuery objects, in creation order.
RECURSIVE StoreChange(_, _)
StoreChange(i, changed) ==
    IF i > Len(stores) THEN <<>>
    ELSE (IF stores[i].kind = "live" /\ stores[i].query \in changed
          THEN [k \in 1..Len(mqListeners[i]) |->
                   [cb |-> mqListeners[i][k].cb, sub |-> mqListeners[i][k].sub,
                    type |-> "change"]]
          ELSE <<>>) \o StoreChange(i + 1, changed)

TypeOK ==
    /\ variant \in Variants
    /\ win \in BOOLEAN
    /\ matches \in [Queries -> BOOLEAN]
    /\ storeCache \in [Queries -> 0..Len(stores)]
    /\ Len(mqListeners) = Len(stores)
    /\ Len(subs) <= MaxSubs
    /\ notified \subseteq Queries

Init ==
    /\ variant \in Variants
    /\ win \in BOOLEAN
    /\ matches \in (IF win THEN [Queries -> BOOLEAN] ELSE {NoMatch})
    /\ stores = <<>>
    /\ storeCache = [q \in Queries |-> 0]
    /\ mqListeners = <<>>
    /\ winListeners = [t \in WindowEvents |-> <<>>]
    /\ subs = <<>>
    /\ fired = <<>>
    /\ event = NoEvent
    /\ ret = NoRet
    /\ notified = {}
    /\ cons = [c \in Consumers |-> Unmounted]
    /\ ssr = [q \in Queries |-> NoMarkup]

\* useMediaQuery(query): getStore(query), then the binding's read of the store.
\* The hook passes subscribe and getSnapshot only.  A server render happens in a
\* window-less environment.
UseMediaQuery(query, mode) ==
    /\ variant = "store"
    /\ mode = "server" => ~win
    /\ mode = "hydrate" => win
    /\ LET create == ~storeCacheHas(query)
           s == IF create THEN Len(stores) + 1 ELSE storeCache[query]
           st == IF create THEN createMediaQueryStore(query) ELSE stores[s]
       IN /\ stores' = IF create THEN Append(stores, st) ELSE stores
          /\ mqListeners' = IF create THEN Append(mqListeners, <<>>) ELSE mqListeners
          /\ storeCache' = [storeCache EXCEPT ![query] = s]
          /\ ret' = [op |-> "useMediaQuery", q |-> query, h |-> 0, store |-> s,
                     val |-> useSyncExternalStore(mode, Show(getSnapshot(st)),
                                                  FALSE, "none")]
    /\ fired' = <<>>
    /\ event' = NoEvent
    /\ UNCHANGED <<variant, win, matches, winListeners, subs, notified>>

\* store.getSnapshot() of a constructed store, called by the binding at any time.
GetSnapshot(s) ==
    /\ s \in 1..Len(stores)
    /\ ret' = [op |-> "getSnapshot", q |-> stores[s].query, h |-> 0, store |-> s,
               val |-> Show(getSnapshot(stores[s]))]
    /\ fired' = <<>>
    /\ event' = NoEvent
    /\ UNCHANGED <<variant, win, matches, stores, storeCache, mqListeners,
                   winListeners, subs, notified>>

\* store.subscribe(callback) of the store a render obtained for query.
Subscribe(query, cb) ==
    /\ variant = "store"
    /\ storeCacheHas(query)
    /\ Len(subs) < MaxSubs
    /\ LET s == storeCache[query]
           h == Len(subs) + 1
       IN /\ subs' = Append(subs, [q |-> query, cb |-> cb, store |-> s,
                                   released |-> FALSE, mq |-> <<>>])
          /\ mqListeners' =
                IF stores[s].kind = "fallback" THEN mqListeners
                ELSE [mqListeners EXCEPT ![s] = addEventListener(@, cb, h)]
          /\ ret' = [op |-> "subscribe", q |-> query, h |-> h, store |-> s,
                     val |-> "none"]
    /\ fired' = <<>>
    /\ event' = NoEvent
    /\ UNCHANGED <<variant, win, matches, stores, storeCache, winListeners, notified>>

\* The cleanup returned by store.subscribe, invoked any number of times.
\* released records that the handle has been invoked.
Cleanup(h) ==
    /\ variant = "store"
    /\ h \in 1..Len(subs)
    /\ LET s == subs[h].store
       IN mqListeners' =
             IF stores[s].kind = "fallback" THEN mqListeners
             ELSE [mqListeners EXCEPT ![s] = removeEventListener(@, subs[h].cb)]
    /\ subs' = [subs EXCEPT ![h].released = TRUE]
    /\ ret' = [op |-> "cleanup", q |-> subs[h].q, h |-> h, store |-> subs[h].store,
               val |-> "none"]
    /\ fired' = <<>>
    /\ event' = NoEvent
    /\ UNCHANGED <<variant, win, matches, stores, storeCache, winListeners, notified>>

\* A construction failure that is caught and cached as the fallback store.
getStoreOnRaiseCached(query) ==
    [stores |-> Append(stores, [kind |-> "fallback", query |-> query,
                                hadWindow |-> win]),
     storeCache |-> [storeCache EXCEPT ![query] = Len(stores) + 1],
     mqListeners |-> Append(mqListeners, <<>>),
     val |-> "false"]

\* getStore(query) when window.matchMedia raises inside createMediaQueryStore:
\* the argument of storeCache.set is never produced, so set does not run and
\* the exception leaves getStore and useMediaQuery.
getStoreOnRaise(query) ==
    [stores |-> stores, storeCache |-> storeCache, mqListeners |-> mqListeners,
     val |-> "throw"]

\* useMediaQuery(query) in an environment whose window.matchMedia raises (a
\* window without the matching facility): reached only when the store has to be
\* constructed on the window branch.
UseMediaQueryRaises(query) ==
    /\ variant = "store"
    /\ win
    /\ ~storeCacheHas(query)
    /\ LET r == getStoreOnRaise(query)
       IN /\ stores' = r.stores
          /\ storeCache' = r.storeCache
          /\ mqListeners' = r.mqListeners
          /\ ret' = [op |-> "useMediaQuery", q |-> query, h |-> 0,
                     store |-> r.storeCache[query], val |-> r.val]
    /\ fired' = <<>>
    /\ event' = [type |-> "raise", changed |-> {}]
    /\ UNCHANGED <<variant, win, matches, winListeners, subs, notified>>

----------------------------------------------------------------------------
(* src/unnamed/part_001 *)

\* getSnapshot(query)(): window.matchMedia(query).matches; a ReferenceError
\* without a window.
directGetSnapshot(query) ==
    IF win THEN Show(matches[query]) ELSE "throw"

\* useMediaQuery(query): useSyncExternalStore(subscribe(query), getSnapshot(query)).
DirectUseMediaQuery(query, mode) ==
    /\ variant = "direct"
    /\ mode = "server" => ~win
    /\ mode = "hydrate" => win
    /\ ret' = [op |-> "useMediaQuery", q |-> query, h |-> 0, store |-> 0,
               val |-> useSyncExternalStore(mode, directGetSnapshot(query),
                                            FALSE, "none")]
    /\ fired' = <<>>
    /\ event' = NoEvent
    /\ UNCHANGED <<variant, win, matches, stores, storeCache, mqListeners,
                   winListeners, subs, notified>>

\* subscribe(query)(callback): a new controller and MediaQueryList, three
\* listeners added with the controller's signal.  Without a window the call
\* throws before registering anything.
DirectSubscribe(query, cb) ==
    /\ variant = "direct"
    /\ Len(subs) < MaxSubs
    /\ LET h == Len(subs) + 1
       IN IF win
          THEN /\ subs' = Append(subs, [q |-> query, cb |-> cb, store |-> 0,
                                        released |-> FALSE,
                                        mq |-> addEventListener(<<>>, cb, h)])
               /\ winListeners' = [t \in WindowEvents |->
                                      addEventListener(winListeners[t], cb, h)]
               /\ ret' = [op |-> "subscribe", q |-> query, h |-> h, store |-> 0,
                          val |-> "none"]
          ELSE /\ UNCHANGED <<subs, winListeners>>
               /\ ret' = [op |-> "subscribe", q |-> query, h |-> 0, store |-> 0,
                          val |-> "throw"]
    /\ fired' = <<>>
    /\ event' = NoEvent
    /\ UNCHANGED <<variant, win, matches, stores, storeCache, mqListeners, notified>>

\* The cleanup returned by subscribe: controller.abort().  released is the
\* signal's aborted flag; a second abort does nothing.
DirectCleanup(h) ==
    /\ variant = "direct"
    /\ h \in 1..Len(subs)
    /\ IF subs[h].released
       THEN UNCHANGED <<subs, winListeners>>
       ELSE /\ subs' = [subs EXCEPT ![h].released = TRUE,
                                    ![h].mq = abort(@, h)]
            /\ winListeners' = [t \in WindowEvents |-> abort(winListeners[t], h)]
    /\ ret' = [op |-> "cleanup", q |-> subs[h].q, h |-> h, store |-> 0,
               val |-> "none"]
    /\ fired' = <<>>
    /\ event' = NoEvent
    /\ UNCHANGED <<variant, win, matches, stores, storeCache, mqListeners, notified>>

\* The change notifications of the subscriptions' own MediaQueryList objects.
RECURSIVE SubChange(_, _)
SubChange(h, changed) ==
    IF h > Len(subs) THEN <<>>
    ELSE (IF subs[h].q \in changed
          THEN [k \in 1..Len(subs[h].mq) |->
                   [cb |-> subs[h].mq[k].cb, sub |-> subs[h].mq[k].sub,
                    type |-> "change"]]
          ELSE <<>>) \o SubChange(h + 1, changed)

----------------------------------------------------------------------------
(* The environment *)

\* A MediaQueryList object of the program exists for query: a change
\* notification fires at MediaQueryList objects.
HasMql(query) ==
    \/ \E i \in 1..Len(stores) : stores[i].kind = "live" /\ stores[i].query = query
    \/ \E h \in 1..Len(subs) : subs[h].store = 0 /\ subs[h].q = query

Changed(m) == {q \in Queries : m[q] # matches[q]}

WindowFired(type) ==
    [k \in 1..Len(winListeners[type]) |->
        [cb |-> winListeners[type][k].cb, sub |-> winListeners[type][k].sub,
         type |-> type]]

ChangeFired(changed) == StoreChange(1, changed) \o SubChange(1, changed)

\* A window comes to exist in a realm that had none.
WindowAppears(m) ==
    /\ ~win
    /\ win' = TRUE
    /\ matches' = m
    /\ fired' = <<>>
    /\ event' = NoEvent
    /\ ret' = NoRet
    /\ UNCHANGED <<variant, stores, storeCache, mqListeners, winListeners, subs,
                   notified>>

\* The match state of one query changes (any media feature): its MediaQueryList
\* objects dispatch 'change'.
MediaChange(query) ==
    /\ win
    /\ matches' = [matches EXCEPT ![query] = ~@]
    /\ fired' = ChangeFired({query})
    /\ event' = [type |-> "change", changed |-> {query}]
    /\ notified' = IF HasMql(query) THEN notified \cup {query} ELSE notified
    /\ ret' = NoRet
    /\ UNCHANGED <<variant, win, stores, storeCache, mqListeners, winListeners, subs>>

\* The window dispatches 'resize' or 'orientationchange'; the viewport change
\* leaves every match state at m, and the queries whose state changed notify.
WindowEvent(type, m) ==
    /\ win
    /\ matches' = m
    /\ fired' = WindowFired(type) \o ChangeFired(Changed(m))
    /\ event' = [type |-> type, changed |-> Changed(m)]
    /\ notified' = notified \cup {q \in Changed(m) : HasMql(q)}
    /\ ret' = NoRet
    /\ UNCHANGED <<variant, win, stores, storeCache, mqListeners, winListeners, subs>>

\* No consumer of the binding is rendered and no server markup exists.
Detached == UNCHANGED <<cons, ssr>>

Next ==
    \/ \E q \in Queries, mode \in Modes : UseMediaQuery(q, mode) /\ Detached
    \/ \E q \in Queries : UseMediaQueryRaises(q) /\ Detached
    \/ \E s \in 1..Len(stores) : GetSnapshot(s) /\ Detached
    \/ \E q \in Queries, cb \in Callbacks : Subscribe(q, cb) /\ Detached
    \/ \E h \in 1..Len(subs) : Cleanup(h) /\ Detached
    \/ \E q \in Queries, mode \in Modes : DirectUseMediaQuery(q, mode) /\ Detached
    \/ \E q \in Queries, cb \in Callbacks : DirectSubscribe(q, cb) /\ Detached
    \/ \E h \in 1..Len(subs) : DirectCleanup(h) /\ Detached
    \/ \E m \in [Queries -> BOOLEAN] : WindowAppears(m) /\ Detached
    \/ \E q \in Queries : MediaChange(q) /\ Detached
    \/ \E t \in WindowEvents, m \in [Queries -> BOOLEAN] : WindowEvent(t, m) /\ Detached

\* The store contract driven by any caller; no consumer of the binding is
\* rendered and no server markup exists.
Spec == Init /\ [][Next]_vars

----------------------------------------------------------------------------
(* The binding: React's useSyncExternalStore driving the hook for consumers *)

\* handleStoreChange of a consumer's hook instance: one callback per consumer.
Handler(c) == c

\* The identity of the subscribe function a render hands to the binding, given
\* the identity the previous render handed over.  index.tsx passes
\* store.subscribe of the cached store (one function per store); part_001
\* calls subscribe(query), which returns a new closure on every render.
SubscribeFn(store, prev) ==
    IF variant = "store" THEN store
    ELSE IF prev = 1 THEN 2 ELSE 1

\* getSnapshot() of the functions the consumer's last render handed over.
Snapshot(query) ==
    IF variant = "store" THEN Show(getSnapshot(stores[storeCache[query]]))
    ELSE directGetSnapshot(query)

\* First render of a consumer: the hook is called and its value is held.  A
\* render that throws leaves the consumer unrendered.
Render(c, query) ==
    /\ cons[c].pc = "idle"
    /\ \/ UseMediaQuery(query, "client")
       \/ DirectUseMediaQuery(query, "client")
    /\ cons' = [cons EXCEPT ![c] =
                   IF ret'.val \in {"true", "false"}
                   THEN [pc |-> "rendered", q |-> query, held |-> ret'.val, h |-> 0,
                         fn |-> SubscribeFn(ret'.store, 0), fresh |-> TRUE,
                         missed |-> FALSE]
                   ELSE @]
    /\ UNCHANGED ssr

\* The subscribe effect: subscribe(handleStoreChange), then the snapshot is
\* read again and a changed value is rendered at once.
Commit(c) ==
    /\ cons[c].pc = "rendered"
    /\ \/ Subscribe(cons[c].q, Handler(c))
       \/ DirectSubscribe(cons[c].q, Handler(c))
    /\ cons' = [cons EXCEPT ![c].pc = "mounted",
                            ![c].h = ret'.h,
                            ![c].held = Snapshot(cons[c].q),
                            ![c].fresh = TRUE]
    /\ UNCHANGED ssr

\* A re-render of a mounted consumer with the same query.  The effect depends
\* on the subscribe function: it is run again only when the identity changed.
ReRender(c) ==
    /\ cons[c].pc = "mounted"
    /\ \/ UseMediaQuery(cons[c].q, "client")
       \/ DirectUseMediaQuery(cons[c].q, "client")
    /\ LET fn == SubscribeFn(ret'.store, cons[c].fn)
       IN cons' = [cons EXCEPT ![c].pc = IF fn = cons[c].fn THEN "mounted"
                                         ELSE "resubscribe",
                               ![c].fn = fn,
                               ![c].held = ret'.val,
                               ![c].fresh = TRUE]
    /\ UNCHANGED ssr

\* The effect's cleanup: on unmount, or before the effect is run again.
Release(c) ==
    /\ cons[c].pc \in {"mounted", "resubscribe"}
    /\ \/ Cleanup(cons[c].h)
       \/ DirectCleanup(cons[c].h)
    /\ cons' = [cons EXCEPT ![c] =
                   IF @.pc = "resubscribe" THEN [@ EXCEPT !.pc = "rendered", !.h = 0]
                   ELSE Unmounted]
    /\ UNCHANGED ssr

\* handleStoreChange: a consumer whose callback was invoked by this step reads
\* the snapshot and renders it.  The others keep what they hold.
FollowOne(c, changed) ==
    IF cons[c].h # 0 /\ \E k \in 1..Len(fired') : fired'[k].sub = cons[c].h
    THEN [cons[c] EXCEPT !.held = [q \in Queries |-> Snapshot(q)]'[cons[c].q],
                         !.fresh = TRUE]
    ELSE [cons[c] EXCEPT
            !.fresh = @ /\ cons[c].q \notin changed,
            !.missed = @ \/ (cons[c].pc = "rendered" /\ win /\ cons[c].q \in changed)]

Follow(changed) ==
    /\ cons' \in [Consumers -> {FollowOne(c, changed) : c \in Consumers}]
    /\ \A c \in Consumers : cons'[c] = FollowOne(c, changed)

NextReact ==
    \/ \E c \in Consumers, q \in Rendered : Render(c, q)
    \/ \E c \in Consumers : Commit(c)
    \/ \E c \in Consumers : ReRender(c)
    \/ \E c \in Consumers : Release(c)
    \/ \E m \in [Queries -> BOOLEAN] : WindowAppears(m) /\ Follow(Changed(m)) /\ UNCHANGED ssr
    \/ \E q \in Queries : MediaChange(q) /\ Follow({q}) /\ UNCHANGED ssr
    \/ \E t \in WindowEvents, m \in [Queries -> BOOLEAN] :
          WindowEvent(t, m) /\ Follow(Changed(m)) /\ UNCHANGED ssr

\* Consumers rendered, committed, re-rendered and unmounted by the binding.
SpecReact == Init /\ [][NextReact]_vars

----------------------------------------------------------------------------
(* Server rendering and hydration *)

\* The render that produces the markup, in an environment without a window:
\* React's server renderer, or a client renderer run without a window.
ServerRender(query, mode) ==
    /\ ~win
    /\ ssr[query].server = "none"
    /\ \/ UseMediaQuery(query, mode)
       \/ DirectUseMediaQuery(query, mode)
    /\ ssr' = [ssr EXCEPT ![query].server = ret'.val]
    /\ UNCHANGED cons

\* The markup reaches a browser: the module is loaded there, with a window, a
\* match state of its own and an empty storeCache.
ClientRealm(m) ==
    /\ ~win
    /\ \E q \in Queries : ssr[q].server # "none"
    /\ win' = TRUE
    /\ matches' = m
    /\ stores' = <<>>
    /\ storeCache' = [q \in Queries |-> 0]
    /\ mqListeners' = <<>>
    /\ winListeners' = [t \in WindowEvents |-> <<>>]
    /\ subs' = <<>>
    /\ notified' = {}
    /\ fired' = <<>>
    /\ event' = NoEvent
    /\ ret' = NoRet
    /\ UNCHANGED <<variant, cons, ssr>>

\* The first client read of a query whose render produced markup: while
\* hydrating, the binding takes getServerSnapshot.
Hydrate(query) ==
    /\ ssr[query].server \in {"true", "false"}
    /\ ssr[query].client = "none"
    /\ \/ UseMediaQuery(query, "hydrate")
       \/ DirectUseMediaQuery(query, "hydrate")
    /\ ssr' = [ssr EXCEPT ![query].client = ret'.val]
    /\ UNCHANGED cons

\* React recovers from a render or a hydration that threw by rendering on the
\* client.
Recover(query) ==
    /\ win
    /\ \/ ssr[query].client = "throw"
       \/ ssr[query].server = "throw" /\ ssr[query].client = "none"
    /\ \/ UseMediaQuery(query, "client")
       \/ DirectUseMediaQuery(query, "client")
    /\ ssr' = [ssr EXCEPT ![query].client = ret'.val]
    /\ UNCHANGED cons

NextHydrate ==
    \/ \E q \in Queries, mode \in Modes : ServerRender(q, mode)
    \/ \E m \in [Queries -> BOOLEAN] : ClientRealm(m)
    \/ \E q \in Queries : Hydrate(q)
    \/ \E q \in Queries : Recover(q)
    \/ \E q \in Queries : MediaChange(q) /\ Detached

\* A page rendered without a window and hydrated in a browser.
SpecHydrate == Init /\ [][NextHydrate]_vars

----------------------------------------------------------------------------
(* Claims *)

StoreOf(query) == stores[storeCache[query]]

Active(h) == ~subs[h].released

FiredCallbacks == {fired[k].cb : k \in 1..Len(fired)}

\* The listener entries registered anywhere in the environment.
ListenerCount ==
    LET RECURSIVE Sum(_, _)
        Sum(s, n) == IF n = 0 THEN 0 ELSE Len(s[n]) + Sum(s, n - 1)
    IN Sum(mqListeners, Len(mqListeners))
       + Sum([h \in 1..Len(subs) |-> subs[h].mq], Len(subs))
       + Len(winListeners["resize"]) + Len(winListeners["orientationchange"])

\* The subscriptions that own a listener entry somewhere.
ListenerOwners ==
    UNION {{mqListeners[s][k].sub : k \in 1..Len(mqListeners[s])} : s \in 1..Len(stores)}
    \cup UNION {{subs[h].mq[k].sub : k \in 1..Len(subs[h].mq)} : h \in 1..Len(subs)}
    \cup UNION {{winListeners[t][k].sub : k \in 1..Len(winListeners[t])} : t \in WindowEvents}

\* C1: once a change notification for query Q has fired, a call of
\* useMediaQuery(Q), and of getSnapshot of Q's store, returns the environment's
\* current (post-change) match value of Q.
C1_SnapshotFreshness ==
    (ret.op \in {"useMediaQuery", "getSnapshot"} /\ ret.q \in notified)
        => ret.val = Show(matches[ret.q])

C1_Witness ==
    /\ variant = "store"
    /\ ret.op = "useMediaQuery"
    /\ ret.q \in notified
    /\ ret.val = "true"
    /\ \E h \in 1..Len(subs) : subs[h].q = ret.q /\ Active(h)

\* C2 (as claimed): in every reachable state, getSnapshot of the store the
\* registry holds for Q equals the environment's match state of Q.
C2_Original ==
    \A q \in Queries :
        storeCacheHas(q) => getSnapshot(StoreOf(q)) = matches[q]

\* C2 (amended): in every reachable state, getSnapshot of a registry store that
\* was constructed while a window existed equals the environment's current match
\* state of its query.
C2_LiveSnapshot ==
    \A q \in Queries :
        (storeCacheHas(q) /\ StoreOf(q).hadWindow)
            => getSnapshot(StoreOf(q)) = matches[q]

C2_Witness ==
    /\ \E q \in Queries :
          storeCacheHas(q) /\ StoreOf(q).hadWindow /\ matches[q] /\ q \in notified
    /\ ret.op = "getSnapshot"
    /\ ret.val = "true"

\* C3: the registry holds one store per query string, a store is constructed at
\* most once per query string, and every getStore(Q) returns the store instance
\* the first call for Q constructed.
C3_RegistryIdentity ==
    /\ \A q \in Queries :
          /\ Cardinality({i \in 1..Len(stores) : stores[i].query = q}) <= 1
          /\ storeCacheHas(q) => StoreOf(q).query = q
    /\ (variant = "store" /\ ret.op = "useMediaQuery")
          => /\ ret.store = storeCache[ret.q]
             /\ \A i \in 1..Len(stores) : stores[i].query = ret.q => ret.store <= i

C3_Witness ==
    /\ variant = "store"
    /\ ret.op = "useMediaQuery"
    /\ Len(stores) = Cardinality(Queries)
    /\ \E h \in 1..Len(subs) : subs[h].store = ret.store

\* C4 (as claimed): whenever a change notification for Q fires, the callback of
\* every subscription on Q's store that is established and not released is
\* invoked.
C4_DeliveryToAll ==
    \A h \in 1..Len(subs) :
        (/\ variant = "store"
         /\ event.type # "none"
         /\ subs[h].q \in event.changed
         /\ HasMql(subs[h].q)
         /\ Active(h))
            => subs[h].cb \in FiredCallbacks

\* C5: a store constructed while no window exists returns false from
\* getSnapshot in every state, has no listener registered for it and none of
\* its subscriptions' callbacks invoked, and its subscribe and cleanup calls
\* change no listener list and raise nothing.
FallbackQuiet ==
    \A s \in 1..Len(stores) :
        ~stores[s].hadWindow
            => /\ getSnapshot(stores[s]) = FALSE
               /\ mqListeners[s] = <<>>
               /\ \A h \in 1..Len(subs) :
                     subs[h].store = s
                         => /\ h \notin ListenerOwners
                            /\ \A k \in 1..Len(fired) : fired[k].sub # h

C5_FallbackStore ==
    [][/\ FallbackQuiet'
       /\ (/\ ret'.op \in {"subscribe", "cleanup"}
           /\ ret'.store # 0
           /\ ~stores[ret'.store].hadWindow)
              => /\ mqListeners' = mqListeners
                 /\ winListeners' = winListeners
                 /\ ret'.val # "throw"
                 /\ fired' = <<>>]_vars

C5_Witness ==
    /\ win
    /\ ret.op = "cleanup"
    /\ ret.store # 0
    /\ ~stores[ret.store].hadWindow
    /\ matches[ret.q]
    /\ \E h \in 1..Len(subs) : h # ret.h /\ subs[h].store = ret.store /\ Active(h)

\* C6 (as claimed): without a window, useMediaQuery(Q) as run by the binding
\* returns false and never raises.
C6_NoWindowRead ==
    (ret.op = "useMediaQuery" /\ ~win) => ret.val = "false"

\* C7: a released subscription owns no listener anywhere and none of its
\* listeners is invoked by a later notification; once every handle has been
\* released no listener is registered on the environment.
C7_CompleteCleanup ==
    /\ \A h \in 1..Len(subs) :
          subs[h].released
              => /\ h \notin ListenerOwners
                 /\ \A k \in 1..Len(fired) : fired[k].sub # h
    /\ (\A h \in 1..Len(subs) : subs[h].released) => ListenerCount = 0

C7_Witness ==
    /\ Len(subs) = MaxSubs
    /\ \A h \in 1..Len(subs) : subs[h].released /\ subs[h].q = subs[1].q
    /\ \A h \in 1..Len(subs) : subs[h].store # 0 => stores[subs[h].store].hadWindow
    /\ event.type # "none"
    /\ subs[1].q \in event.changed

\* C8 (as claimed): invoking a cleanup handle again leaves the registered
\* listeners exactly as they were and raises nothing.
C8_IdempotentCleanup ==
    [][(ret'.op = "cleanup" /\ subs[ret'.h].released)
          => /\ mqListeners' = mqListeners
             /\ winListeners' = winListeners
             /\ ret'.val # "throw"]_vars

\* C9 (as claimed): a subscription on a store's query stays registered from its
\* subscribe call until its own cleanup call, whatever other handles do.
C9_IndependentHandles ==
    \A h \in 1..Len(subs) :
        (/\ variant = "store"
         /\ stores[subs[h].store].kind = "live"
         /\ Active(h))
            => Registered(mqListeners[subs[h].store], subs[h].cb)

\* C10 (as claimed): while a subscription on Q is active, every window resize
\* and orientationchange event, and every change notification for Q, invokes
\* its callback.
C10_WindowEventCoverage ==
    \A h \in 1..Len(subs) :
        (/\ Active(h)
         /\ HasMql(subs[h].q)
         /\ \/ event.type \in WindowEvents
            \/ event.type # "none" /\ subs[h].q \in event.changed)
            => subs[h].cb \in FiredCallbacks

\* The consumer holds a value that is current: it is subscribed through the
\* binding, or it has read since the last change of its query.
Current(c) ==
    /\ cons[c].pc # "idle"
    /\ cons[c].fresh \/ cons[c].pc \in {"mounted", "resubscribe"}

C13_NoHydrationMismatch ==
    \A q \in Queries :
        ssr[q].client # "none"
            => /\ ssr[q].client \in {"true", "false"}
               /\ ssr[q].client = ssr[q].server

\* C14: a re-render of a mounted consumer with the same query string leaves its
\* subscription as it is: the binding receives the same subscribe function, so
\* the consumer is not unsubscribed and subscribed again.
C14_StableSubscription ==
    [][\A c \in Consumers :
          (cons[c].pc = "mounted" /\ cons'[c].pc # "idle")
             => /\ cons'[c].pc = "mounted"
                /\ cons'[c].fn = cons[c].fn
                /\ cons'[c].h = cons[c].h]_vars

\* C15 as stated: a consumer whose query changed between its first read and its
\* subscription holds the current match state once it is subscribed.
C15_Original ==
    \A c \in Consumers :
        (cons[c].pc = "mounted" /\ cons[c].missed)
            => cons[c].held = Show(matches[cons[c].q])

\* C15: a consumer of a query whose store was constructed with a window, whose
\* query changed between its first read and its subscription, holds the current
\* match state once it is subscribed.
C15_ChangeNotLost ==
    \A c \in Consumers :
        (/\ cons[c].pc = "mounted"
         /\ cons[c].missed
         /\ variant = "store" => stores[storeCache[cons[c].q]].kind = "live")
            => cons[c].held = Show(matches[cons[c].q])

C15_Witness ==
    \E c \in Consumers :
        /\ cons[c].pc = "mounted"
        /\ cons[c].missed
        /\ variant = "store"
        /\ stores[storeCache[cons[c].q]].kind = "live"
        /\ ret.op = "subscribe"
        /\ ret.h = cons[c].h
        /\ cons[c].held = "true"

\* C16: a getSnapshot call changes neither the registry, nor any listener list,
\* nor the environment's match states, and a public read of a query string that
\* already has a store leaves the registry as it is.
C16_PureRead ==
    [][/\ ret'.op = "getSnapshot"
          => UNCHANGED <<stores, storeCache, mqListeners, winListeners, subs,
                         matches, win>>
       /\ (ret'.op = "useMediaQuery" /\ variant = "store"
           /\ storeCache[ret'.q] # 0)
          => /\ UNCHANGED <<stores, storeCache>>
             /\ ret'.store = storeCache[ret'.q]]_vars

C16_Witness ==
    /\ ret.op = "useMediaQuery"
    /\ ret.val = "true"
    /\ Len(stores) = Cardinality(Queries)
    /\ \E h \in 1..Len(subs) : subs[h].store = ret.store /\ Active(h)

\* C17: no step removes or replaces a registry entry, and the getStore of a
\* query string without an entry adds that entry only: the entries, stores and
\* listener lists of the other query strings stay as they are.
C17_NoEviction ==
    [][/\ \A q \in Queries :
             storeCache[q] # 0
                 => /\ storeCache'[q] = storeCache[q]
                    /\ stores'[storeCache[q]] = stores[storeCache[q]]
       /\ (ret'.op = "useMediaQuery" /\ variant = "store"
           /\ storeCache[ret'.q] = 0 /\ storeCache'[ret'.q] # 0)
          => /\ Len(stores') = Len(stores) + 1
             /\ storeCache'[ret'.q] = Len(stores')
             /\ stores'[Len(stores')].query = ret'.q
             /\ \A s \in 1..Len(stores) :
                   stores'[s] = stores[s] /\ mqListeners'[s] = mqListeners[s]
             /\ UNCHANGED <<winListeners, subs>>]_vars

C17_Witness ==
    /\ ret.op = "useMediaQuery"
    /\ ret.store = 2
    /\ storeCache[ret.q] = 2
    /\ mqListeners[1] # <<>>

\* C18: a store first requested while no window exists stays the registry's
\* store of its query string after a window has appeared: every later read
\* returns that store and false, its getSnapshot is false and its subscribe
\* registers nothing, whatever the environment's match state is.
C18_StickyFallback ==
    \A q \in Queries :
        (storeCache[q] # 0 /\ ~stores[storeCache[q]].hadWindow)
            => /\ stores[storeCache[q]].kind = "fallback"
               /\ \A s \in 1..Len(stores) : stores[s].query = q => s = storeCache[q]
               /\ getSnapshot(stores[storeCache[q]]) = FALSE
               /\ (ret.op \in {"useMediaQuery", "getSnapshot"} /\ ret.q = q /\ win)
                     => ret.store = storeCache[q] /\ ret.val = "false"
               /\ (ret.op = "subscribe" /\ ret.q = q) => ret.store = storeCache[q]
               /\ mqListeners[storeCache[q]] = <<>>
               /\ \A h \in 1..Len(subs) :
                     subs[h].store = storeCache[q] => h \notin ListenerOwners

C18_Witness ==
    /\ win
    /\ ret.op = "useMediaQuery"
    /\ ret.val = "false"
    /\ matches[ret.q]
    /\ ~stores[ret.store].hadWindow
    /\ \E h \in 1..Len(subs) : subs[h].store = ret.store /\ Active(h)

\* C19: when the matching facility raises while the store of Q is constructed,
\* the public read raises, the registry, the stores and the listener lists are
\* exactly as before the call, and Q still has no entry, so the next read of Q
\* constructs again.
C19_RaiseLeavesNoEntry ==
    [][(event'.type = "raise" /\ ret'.op = "useMediaQuery")
          => /\ ret'.val = "throw"
             /\ UNCHANGED <<stores, storeCache, mqListeners, winListeners, subs>>
             /\ storeCache'[ret'.q] = 0]_vars

C19_Witness ==
    /\ win
    /\ event.type = "raise"
    /\ ret.op = "useMediaQuery"
    /\ ret.val = "throw"
    /\ storeCache[ret.q] = 0
    /\ \E q \in Queries : storeCache[q] # 0 /\ mqListeners[storeCache[q]] # <<>>

====
